---------------------------- MODULE Spec2Model ----------------------------
(***************************************************************************)
(* Model of the Baseball-tracker scrapers:                                 *)
(*   scrape_schedule.py  schedule pages -> 'Schedule' tab (bulk rewrite)   *)
(*   scraper.py          player stat pages -> current-state and history    *)
(*                       tabs (row-level update / append)                  *)
(* Texts are TLA+ strings; the regular expressions of the source are       *)
(* written out as operators over the characters of a string.               *)
(***************************************************************************)
EXTENDS Integers, Sequences, FiniteSets, TLC

VARIABLES
    \* ---- pure-function harness (parse_time, parse_date, row parsing) ----
    text,        \* the input handed to the function under study
    result,      \* what it returned
    phase,       \* "input" before the call, "done" after it
    \* ---- scrape_schedule.main ----
    sheet,       \* the 'Schedule' tab: sequence of data rows (header left out)
    pre_sheet,   \* the tab as it was when the run started
    schools,     \* entries selected for the run (after --school)
    today,       \* the --today flag
    si,          \* index of the next entry of schools to scrape
    all_games,   \* records aggregated so far
    existing,    \* what ws.get_all_records() returned
    reads,       \* number of reads of the tab in this run
    spc,         \* position of main
    pages,       \* school -> the two responses its print URLs give in this run
    run,         \* number of the current run of main
    rerun,       \* this run repeats a finished run on identical input
    \* ---- scraper.main ----
    tabs,        \* tab name -> sequence of rows
    pre_tabs,    \* the tabs as they were when the run started
    players,     \* rows of the Players tab selected for the run
    pi,          \* index of the next player
    cat,         \* index of the next category of the current player
    mapped,      \* s: what the last scrape call returned
    old_row,     \* what the last write_stats call returned
    tpc,         \* position of main
    site,        \* <<PlayerID, stat type>> -> what the player's page gives
    notify_ok,   \* the notification helpers return (TRUE) or raise (FALSE)
    stat_run,    \* number of the current run of main
    clock        \* datetime.now() to the minute during this run

fnVars    == <<text, result, phase>>
schedVars == <<sheet, pre_sheet, schools, today, si, all_games, existing,
               reads, spc, pages, run, rerun>>
statVars  == <<tabs, pre_tabs, players, pi, cat, mapped, old_row, tpc, site,
               notify_ok, stat_run, clock>>
vars      == <<text, result, phase,
               sheet, pre_sheet, schools, today, si, all_games, existing,
               reads, spc, pages, run, rerun,
               tabs, pre_tabs, players, pi, cat, mapped, old_row, tpc, site,
               notify_ok, stat_run, clock>>

-----------------------------------------------------------------------------
(* Characters and the pieces of regular expressions *)

Ch(s, i) == IF i >= 1 /\ i <= Len(s) THEN SubSeq(s, i, i) ELSE ""

DigitChars == "0123456789"
UpperChars == "ABCDEFGHIJKLMNOPQRSTUVWXYZ"
LowerChars == "abcdefghijklmnopqrstuvwxyz"

Digits    == {SubSeq(DigitChars, k, k) : k \in 1..10}
Uppers    == {SubSeq(UpperChars, k, k) : k \in 1..26}
Lowers    == {SubSeq(LowerChars, k, k) : k \in 1..26}
Letters   == Uppers \cup Lowers
WordChars == Letters \cup Digits \cup {"_"}
Spaces    == {" ", "\t", "\n"}

IsDigit(c) == c \in Digits
IsSpace(c) == c \in Spaces
IsUpper(c) == c \in Uppers
IsAlpha(c) == c \in Letters
IsWord(c)  == c \in WordChars

DigitVal == [c \in Digits |->
                CHOOSE k \in 0..9 : SubSeq(DigitChars, k + 1, k + 1) = c]
ToLowerCh == [c \in Uppers |->
                SubSeq(LowerChars,
                       CHOOSE k \in 1..26 : SubSeq(UpperChars, k, k) = c,
                       CHOOSE k \in 1..26 : SubSeq(UpperChars, k, k) = c)]
ToUpperCh == [c \in Lowers |->
                SubSeq(UpperChars,
                       CHOOSE k \in 1..26 : SubSeq(LowerChars, k, k) = c,
                       CHOOSE k \in 1..26 : SubSeq(LowerChars, k, k) = c)]

LowerCh(c) == IF c \in Uppers THEN ToLowerCh[c] ELSE c
UpperCh(c) == IF c \in Lowers THEN ToUpperCh[c] ELSE c

RECURSIVE Lower(_)
Lower(s) == IF s = "" THEN "" ELSE LowerCh(Head(s)) \o Lower(Tail(s))

RECURSIVE Upper(_)
Upper(s) == IF s = "" THEN "" ELSE UpperCh(Head(s)) \o Upper(Tail(s))

\* \b at the gap before position i (between characters i-1 and i)
WordBoundary(s, i) == IsWord(Ch(s, i - 1)) /= IsWord(Ch(s, i))

\* the first position >= i that holds no whitespace (Len(s)+1 at the end): \s*
RECURSIVE SkipSpaces(_, _)
SkipSpaces(s, i) == IF IsSpace(Ch(s, i)) THEN SkipSpaces(s, i + 1) ELSE i

\* the first position >= i that holds no letter: [a-z]* under re.I
RECURSIVE SkipAlpha(_, _)
SkipAlpha(s, i) == IF IsAlpha(Ch(s, i)) THEN SkipAlpha(s, i + 1) ELSE i

\* the number of digits (at most max) standing at position i: \d{..max}
RECURSIVE DigitRun(_, _, _)
DigitRun(s, i, max) ==
    IF max > 0 /\ IsDigit(Ch(s, i)) THEN 1 + DigitRun(s, i + 1, max - 1) ELSE 0

\* str.strip()
RECURSIVE LStrip(_)
LStrip(s) == IF s /= "" /\ IsSpace(Head(s)) THEN LStrip(Tail(s)) ELSE s

RECURSIVE RStrip(_)
RStrip(s) ==
    IF s /= "" /\ IsSpace(Ch(s, Len(s))) THEN RStrip(SubSeq(s, 1, Len(s) - 1))
    ELSE s

Strip(s) == RStrip(LStrip(s))

\* s[i-1:j] with Python's clamping of the ends
Slice(s, i, j) ==
    IF (IF i < 1 THEN 1 ELSE i) > (IF j > Len(s) THEN Len(s) ELSE j) THEN ""
    ELSE SubSeq(s, IF i < 1 THEN 1 ELSE i, IF j > Len(s) THEN Len(s) ELSE j)

\* s[:n] and s[i-1:]
Prefix(s, n) == Slice(s, 1, n)
From(s, i)   == Slice(s, i, Len(s))

\* the literal p (lower case) stands at position i of s, case ignored
MatchAt(s, i, p) == Lower(Slice(s, i, i + Len(p) - 1)) = p

\* key in text
Contains(s, sub) == \E i \in 1..(Len(s) + 1) : Slice(s, i, i + Len(sub) - 1) = sub

\* \bword\b somewhere in s, case ignored
WordIn(s, w) ==
    \E i \in 1..Len(s) :
        MatchAt(s, i, w) /\ WordBoundary(s, i) /\ WordBoundary(s, i + Len(w))

\* int(digits)
RECURSIVE ToInt(_)
ToInt(s) == IF s = "" THEN 0
            ELSE 10 * ToInt(SubSeq(s, 1, Len(s) - 1)) + DigitVal[Ch(s, Len(s))]

\* str(n), f"{n}"
RECURSIVE IntStr(_)
IntStr(n) == IF n < 10 THEN Ch(DigitChars, n + 1)
             ELSE IntStr(n \div 10) \o Ch(DigitChars, (n % 10) + 1)

\* f"{n:02d}"
Pad2(n) == IF n < 10 THEN "0" \o IntStr(n) ELSE IntStr(n)

\* re.search: the leftmost of the positions where the pattern matches, 0 if none
LeastOr0(S) == IF S = {} THEN 0 ELSE CHOOSE k \in S : \A j \in S : k <= j

\* ' '.join(texts)
RECURSIVE JoinSp(_)
JoinSp(texts) ==
    IF texts = <<>> THEN ""
    ELSE IF Len(texts) = 1 THEN texts[1]
    ELSE texts[1] \o " " \o JoinSp(Tail(texts))

-----------------------------------------------------------------------------
(* parse_time *)

\* (\d{1,2}):(\d{2}) at position i: the number of hour digits matched, 0 if none.
\* The two-digit hour is tried first (greedy).
ClockAt(s, i) ==
    IF IsDigit(Ch(s, i)) /\ IsDigit(Ch(s, i + 1)) /\ Ch(s, i + 2) = ":"
       /\ IsDigit(Ch(s, i + 3)) /\ IsDigit(Ch(s, i + 4)) THEN 2
    ELSE IF IsDigit(Ch(s, i)) /\ Ch(s, i + 1) = ":"
       /\ IsDigit(Ch(s, i + 2)) /\ IsDigit(Ch(s, i + 3)) THEN 1
    ELSE 0

\* (a\.?m\.?|p\.?m\.?)? at position k: group 3 with its dots removed and
\* upper-cased, "" when the group took no part in the match
MeridiemFrom(s, k) ==
    IF /\ LowerCh(Ch(s, k)) \in {"a", "p"}
       /\ LowerCh(Ch(s, IF Ch(s, k + 1) = "." THEN k + 2 ELSE k + 1)) = "m"
    THEN UpperCh(Ch(s, k)) \o "M" ELSE ""

\* \s*(a\.?m\.?|p\.?m\.?)? from position j
MeridiemAt(s, j) == MeridiemFrom(s, SkipSpaces(s, j))

\* ap = 'PM' if 1 <= h <= 7 else 'AM', for a clock time without a marker
InferMeridiem(h) == IF 1 <= h /\ h <= 7 THEN "PM" ELSE "AM"

\* f"{h12}:{mn} {ap}" with h12 = h % 12 or 12
FormatClock(h, mn, ap) ==
    IntStr(IF h % 12 = 0 THEN 12 ELSE h % 12) \o ":" \o mn \o " "
        \o (IF ap = "" THEN InferMeridiem(h) ELSE ap)

\* the result for a clock pattern matched at i with n hour digits
ClockTime(t, i, n) ==
    FormatClock(ToInt(Slice(t, i, i + n - 1)), Slice(t, i + n + 1, i + n + 2),
                MeridiemAt(t, i + n + 3))

\* \b(\d{1,2})\s*(am|pm)\b at position i: the number of digits, 0 if none
BareHourAt(s, i) ==
    LET n == IF IsDigit(Ch(s, i + 1)) THEN 2 ELSE 1
        k == SkipSpaces(s, i + n)
    IN  IF /\ IsDigit(Ch(s, i)) /\ WordBoundary(s, i)
           /\ Lower(Slice(s, k, k + 1)) \in {"am", "pm"}
           /\ WordBoundary(s, k + 2)
        THEN n ELSE 0

\* f"{m.group(1)}:00 {m.group(2).upper()}"
BareTime(t, i, n) ==
    Slice(t, i, i + n - 1) \o ":00 "
        \o Upper(Slice(t, SkipSpaces(t, i + n), SkipSpaces(t, i + n) + 1))

\* i: the leftmost clock match, b: the leftmost bare-hour match (0: none)
TimeFrom(t, i, b) ==
    IF i > 0 THEN ClockTime(t, i, ClockAt(t, i))
    ELSE IF b > 0 THEN BareTime(t, b, BareHourAt(t, b))
    ELSE "TBD"

parse_time(t) ==
    TimeFrom(t, LeastOr0({i \in 1..Len(t) : ClockAt(t, i) > 0}),
                LeastOr0({i \in 1..Len(t) : BareHourAt(t, i) > 0}))

-----------------------------------------------------------------------------
(* parse_date *)

CURRENT_YEAR == 2026

\* the alternation of the month-name pattern, in its order, with MONTH_MAP's value
MonthNames ==
    << <<"january", 1>>, <<"february", 2>>, <<"march", 3>>, <<"april", 4>>,
       <<"may", 5>>, <<"june", 6>>, <<"july", 7>>, <<"august", 8>>,
       <<"september", 9>>, <<"october", 10>>, <<"november", 11>>,
       <<"december", 12>>,
       <<"jan", 1>>, <<"feb", 2>>, <<"mar", 3>>, <<"apr", 4>>, <<"jun", 6>>,
       <<"jul", 7>>, <<"aug", 8>>, <<"sep", 9>>, <<"oct", 10>>, <<"nov", 11>>,
       <<"dec", 12>> >>

\* (\d{4})-(\d{2})-(\d{2}) at position i
IsoAt(s, i) ==
    /\ DigitRun(s, i, 4) = 4 /\ Ch(s, i + 4) = "-"
    /\ DigitRun(s, i + 5, 2) = 2 /\ Ch(s, i + 7) = "-"
    /\ DigitRun(s, i + 8, 2) = 2

\* \b(\d{1,2})/(\d{1,2})/(\d{2,4})\b at position i: the lengths <<m, d, y>> of
\* the three fields, <<0, 0, 0>> if there is no match.  Each field is the
\* whole run of digits standing there: a shorter one is followed by a digit,
\* which is neither "/" nor a word boundary.
SlashAt(s, i) ==
    LET m == DigitRun(s, i, 3)
        d == DigitRun(s, i + m + 1, 3)
        y == DigitRun(s, i + m + d + 2, 5)
    IN  IF /\ WordBoundary(s, i)
           /\ m \in 1..2 /\ Ch(s, i + m) = "/"
           /\ d \in 1..2 /\ Ch(s, i + m + 1 + d) = "/"
           /\ y \in 2..4 /\ WordBoundary(s, i + m + d + 2 + y)
        THEN <<m, d, y>> ELSE <<0, 0, 0>>

\* yr = yr + 2000 if yr < 100 else yr;  f"{yr}-{mo:02d}-{day:02d}"
FormatDate(yr, mo, day) == IntStr(yr) \o "-" \o Pad2(mo) \o "-" \o Pad2(day)
FormatSlash(mo, day, y0) ==
    FormatDate(IF y0 < 100 THEN y0 + 2000 ELSE y0, mo, day)

\* the result for a slash pattern matched at i with field lengths f
SlashDate(t, i, f) ==
    FormatSlash(ToInt(Slice(t, i, i + f[1] - 1)),
                ToInt(Slice(t, i + f[1] + 1, i + f[1] + f[2])),
                ToInt(Slice(t, i + f[1] + f[2] + 2, i + f[1] + f[2] + 1 + f[3])))

\* alternative k of the month-name pattern at position i, up to \s+: the
\* position of the day's first digit, 0 if there is no match
MonthAltAt(s, i, k) ==
    LET j  == i + Len(MonthNames[k][1])
        j2 == IF Ch(s, j) = "." THEN j + 1 ELSE j
        j3 == SkipSpaces(s, j2)
    IN  IF /\ WordBoundary(s, i) /\ MatchAt(s, i, MonthNames[k][1])
           /\ j3 > j2 /\ IsDigit(Ch(s, j3))
        THEN j3 ELSE 0

\* the first alternative that matches at position i, 0 if none
MonthAt(s, i) == LeastOr0({k \in 1..Len(MonthNames) : MonthAltAt(s, i, k) > 0})

\* (\d{1,2})(?:st|nd|rd|th)?(?:,?\s*(\d{4}))? at position j:
\* <<day, year text>>, the year text "" when the group took no part
DayYearAt(s, j) ==
    LET n == DigitRun(s, j, 2)
        a == j + n
        b == IF Lower(Slice(s, a, a + 1)) \in {"st", "nd", "rd", "th"}
             THEN a + 2 ELSE a
        c == IF Ch(s, b) = "," THEN b + 1 ELSE b
        e == SkipSpaces(s, c)
    IN  <<ToInt(Slice(s, j, j + n - 1)),
          IF DigitRun(s, e, 4) = 4 THEN Slice(s, e, e + 3) ELSE "">>

\* yr = int(m.group(3)) if m.group(3) else CURRENT_YEAR
FormatMonth(mo, dy) ==
    FormatDate(IF dy[2] = "" THEN CURRENT_YEAR ELSE ToInt(dy[2]), mo, dy[1])

\* the result for the month-name pattern matched at i by alternative k
MonthDate(t, i, k) ==
    FormatMonth(MonthNames[k][2], DayYearAt(t, MonthAltAt(t, i, k)))

\* a, b, c: the leftmost ISO, slash and month-name matches (0: none)
DateFrom(t, a, b, c) ==
    IF a > 0 THEN Slice(t, a, a + 9)
    ELSE IF b > 0 THEN SlashDate(t, b, SlashAt(t, b))
    ELSE IF c > 0 THEN MonthDate(t, c, MonthAt(t, c))
    ELSE ""

DateIn(t) ==
    DateFrom(t, LeastOr0({i \in 1..Len(t) : IsoAt(t, i)}),
                LeastOr0({i \in 1..Len(t) : SlashAt(t, i)[1] > 0}),
                LeastOr0({i \in 1..Len(t) : MonthAt(t, i) > 0}))

parse_date(raw) == DateIn(Strip(raw))

-----------------------------------------------------------------------------
(* normalize_tv and the per-row regular expressions of parse_print_page *)

TV_MAP ==
    << <<"espn+", "ESPN+">>, <<"espnu", "ESPNU">>, <<"espn2", "ESPN2">>,
       <<"espn", "ESPN">>, <<"sec network", "SEC Network">>,
       <<"acc network", "ACC Network">>,
       <<"big ten network", "Big Ten Network">>,
       <<"mlb network", "MLB Network">>, <<"fs1", "FS1">>, <<"fs2", "FS2">>,
       <<"stadium", "Stadium">>, <<"flobaseball", "FloBaseball">>,
       <<"youtube", "YouTube">>, <<"live stream", "Stream">> >>

\* k: the first key of TV_MAP found in the lowered text (0: none)
TvName(t, k) == IF t = "" THEN "" ELSE IF k > 0 THEN TV_MAP[k][2] ELSE Strip(t)

TvKey(low) == LeastOr0({k \in 1..Len(TV_MAP) : Contains(low, TV_MAP[k][1])})

normalize_tv(t) == TvName(t, TvKey(Lower(t)))

\* the alternatives of the broadcast pattern in the order the matcher tries
\* them: espn\+?2?u? unfolds into its eight greedy-first spellings
TvWords ==
    <<"espn+2u", "espn+2", "espn+u", "espn+", "espn2u", "espn2", "espnu",
      "espn", "sec network", "acc network", "fs1", "fs2", "big ten network",
      "mlb network", "stadium", "flobaseball">>

\* the broadcast pattern at position i: the length matched, 0 if none
TvAt(s, i) ==
    LET k == LeastOr0({a \in 1..Len(TvWords) :
                          /\ MatchAt(s, i, TvWords[a])
                          /\ WordBoundary(s, i + Len(TvWords[a]))})
    IN  IF WordBoundary(s, i) /\ k > 0 THEN Len(TvWords[k]) ELSE 0

\* \b([WL])\s+(\d+[-]\d+) at position i: the formatted result, "" if none.
\* (The source also accepts an en dash between the two scores; the texts of
\* this model are ASCII.)
ResultAt(s, i) ==
    LET k == SkipSpaces(s, i + 1)
        n == DigitRun(s, k, Len(s))
        m == DigitRun(s, k + n + 1, Len(s))
    IN  IF /\ WordBoundary(s, i) /\ Ch(s, i) \in {"W", "L"}
           /\ k > i + 1 /\ n > 0 /\ Ch(s, k + n) = "-" /\ m > 0
        THEN Ch(s, i) \o " " \o Slice(s, k, k + n + m) ELSE ""

\* \s+[WLT]\s+\d+[-]\d+.*$ at position i
ScoreTailAt(s, i) ==
    LET k == SkipSpaces(s, i)
        a == SkipSpaces(s, k + 1)
        n == DigitRun(s, a, Len(s))
    IN  /\ IsSpace(Ch(s, i)) /\ Ch(s, k) \in {"W", "L", "T"}
        /\ a > k + 1 /\ n > 0 /\ Ch(s, a + n) = "-" /\ IsDigit(Ch(s, a + n + 1))
        /\ ~Contains(From(s, a + n + 1), "\n")

\* at\s+@?\s* matched from position 1, the first \s+ ending at a
AfterAt(o, a) == From(o, SkipSpaces(o, IF Ch(o, a) = "@" THEN a + 1 ELSE a))

\* re.sub(r'^(vs\.?\s*|at\s+@?\s*)', '', opponent, flags=re.I).strip()
StripVsAt(o) ==
    Strip(IF MatchAt(o, 1, "vs")
          THEN From(o, SkipSpaces(o, IF Ch(o, 3) = "." THEN 4 ELSE 3))
          ELSE IF MatchAt(o, 1, "at") /\ IsSpace(Ch(o, 3))
          THEN AfterAt(o, SkipSpaces(o, 3))
          ELSE o)

\* i: the leftmost match of the score tail (0: none)
CutAt(o, i) == Strip(IF i = 0 THEN o ELSE Prefix(o, i - 1))

\* re.sub(r'\s+[WLT]\s+\d+[-]\d+.*$', '', opponent).strip()
StripScore(o) == CutAt(o, LeastOr0({i \in 1..Len(o) : ScoreTailAt(o, i)}))

CleanOpponent(o) == StripScore(StripVsAt(o))

-----------------------------------------------------------------------------
(* parse_print_page and parse_list_layout.                                  *)
(* A document is what BeautifulSoup hands to the parser:                    *)
(*   tables: the <table> elements in document order, each a sequence of     *)
(*           <tr> rows, each row the sequence of its cell texts;            *)
(*   items:  the texts of the elements the list-layout selector matches.    *)

MonthAbbrs == {"jan", "feb", "mar", "apr", "may", "jun", "jul", "aug", "sep",
               "oct", "nov", "dec"}

\* \b(?:jan|...|dec)[a-z]*\.?\s+\d{1,2} at position i: the length matched,
\* 0 if none
AbbrAt(s, i) ==
    LET j  == SkipAlpha(s, i + 3)
        j2 == IF Ch(s, j) = "." THEN j + 1 ELSE j
        j3 == SkipSpaces(s, j2)
        n  == DigitRun(s, j3, 2)
    IN  IF /\ WordBoundary(s, i) /\ Lower(Slice(s, i, i + 2)) \in MonthAbbrs
           /\ j3 > j2 /\ n > 0
        THEN j3 + n - i ELSE 0

\* \d{1,2}/\d{1,2}/\d{2,4} at position i: the length matched, 0 if none
ShortAt(s, i) ==
    LET m == DigitRun(s, i, 2)
        d == DigitRun(s, i + m + 1, 2)
        y == DigitRun(s, i + m + d + 2, 4)
    IN  IF /\ m > 0 /\ Ch(s, i + m) = "/"
           /\ d > 0 /\ Ch(s, i + m + 1 + d) = "/" /\ y >= 2
        THEN m + d + y + 2 ELSE 0

\* the table-scoring pattern at position i: the length matched, 0 if none
DateLikeAt(s, i) == IF AbbrAt(s, i) > 0 THEN AbbrAt(s, i) ELSE ShortAt(s, i)

\* the leftmost match of the table-scoring pattern at or after i (0: none)
NextDateLike(s, i) == LeastOr0({j \in i..Len(s) : DateLikeAt(s, j) > 0})

\* len(re.findall(pattern, s[i-1:])): matches do not overlap
RECURSIVE DateLikeCount(_, _)
DateLikeFrom(s, j) ==
    IF j = 0 THEN 0 ELSE 1 + DateLikeCount(s, j + DateLikeAt(s, j))
DateLikeCount(s, i) == DateLikeFrom(s, NextDateLike(s, i))

\* tbl.get_text(' ')
RECURSIVE TableText(_)
TableText(tbl) ==
    IF tbl = <<>> THEN ""
    ELSE IF Len(tbl) = 1 THEN JoinSp(tbl[1])
    ELSE JoinSp(tbl[1]) \o " " \o TableText(Tail(tbl))

TableScore(tbl) == DateLikeCount(TableText(tbl), 1)

\* the first table of the highest score, 0 when no table scores above 0
BestOf(scores) ==
    LeastOr0({k \in 1..Len(scores) :
                 scores[k] > 0 /\ \A j \in 1..Len(scores) : scores[j] <= scores[k]})

\* the index of best_table
BestTable(tables) == BestOf([k \in 1..Len(tables) |-> TableScore(tables[k])])

HasAny(h, keys) == \E x \in keys : Contains(h, x)

HeaderRole(h) ==
    IF HasAny(h, {"date", "day"}) THEN "date"
    ELSE IF HasAny(h, {"opponent", "team", "vs", "game"}) THEN "opp"
    ELSE IF HasAny(h, {"time", "start"}) THEN "time"
    ELSE IF HasAny(h, {"location", "site", "venue", "city", "place"}) THEN "loc"
    ELSE IF HasAny(h, {"result", "score", "w/l", "record"}) THEN "result"
    ELSE IF HasAny(h, {"tv", "broadcast", "network", "coverage"}) THEN "tv"
    ELSE "none"

Roles == {"date", "opp", "time", "loc", "result", "tv"}

\* the greatest member of a set of positions, 0 for the empty set
GreatestOr0(S) == IF S = {} THEN 0 ELSE CHOOSE k \in S : \A j \in S : j <= k

\* col_date, col_opp, ...: the last header of each role, 0 for None
ColsOf(roles) ==
    [r \in Roles |-> GreatestOr0({k \in 1..Len(roles) : roles[k] = r})]

Cols(header_row) ==
    ColsOf([k \in 1..Len(header_row) |-> HeaderRole(Lower(Strip(header_row[k])))])

\* texts[col] if col is not None and col < len(texts) else dflt
CellOr(texts, col, dflt) ==
    IF col > 0 /\ col <= Len(texts) THEN texts[col] ELSE dflt

\* vals[k] for the cell k found by a scan, dflt when the scan found none
ValueAt(vals, k, dflt) == IF k = 0 THEN dflt ELSE vals[k]

\* dates[k] = parse_date(texts[k])
RowDate(dates, col_date) ==
    IF CellOr(dates, col_date, "") /= "" THEN dates[col_date]
    ELSE ValueAt(dates, LeastOr0({k \in 1..Len(dates) : dates[k] /= ""}), "")

\* max(candidates, key=len): the first of the longest candidates
Longest(texts, cand) ==
    ValueAt(texts,
            LeastOr0({k \in cand : \A j \in cand : Len(texts[j]) <= Len(texts[k])}),
            "")

\* the opponent cell, else the longest cell that is neither a date nor a time
RowOpponent(texts, dates, col_opp) ==
    IF CellOr(texts, col_opp, "") /= "" THEN texts[col_opp]
    ELSE Longest(texts, {k \in 1..Len(texts) :
                            dates[k] = "" /\ ClockAt(texts[k], 1) = 0})

\* ^at\s|^@\s
StartsAway(s) ==
    \/ MatchAt(s, 1, "at") /\ IsSpace(Ch(s, 3))
    \/ Ch(s, 1) = "@" /\ IsSpace(Ch(s, 2))

\* hay = raw_loc + full[:60]
HomeAway(hay, orig_opp) ==
    IF StartsAway(orig_opp) THEN "Away"
    ELSE IF WordIn(hay, "away") \/ (Ch(hay, 1) = "@" /\ IsSpace(Ch(hay, 2)))
    THEN "Away"
    ELSE IF \E w \in {"neutral", "tournament", "tourney", "classic"} :
                WordIn(hay, w)
    THEN "Neutral"
    ELSE "Home"

RowHomeAway(texts, full, col_loc, col_opp) ==
    HomeAway(CellOr(texts, col_loc, "") \o Prefix(full, 60),
             CellOr(texts, col_opp, full))

\* times[k] = parse_time(texts[k])
RowTime(texts, times, col_time) ==
    IF CellOr(texts, col_time, "") /= "" /\ times[col_time] /= "TBD"
    THEN times[col_time]
    ELSE ValueAt(times, LeastOr0({k \in 1..Len(times) : times[k] /= "TBD"}),
                 "TBD")

\* i: the leftmost match of the broadcast pattern in full (0: none)
TvFound(full, i) ==
    IF i = 0 THEN "" ELSE normalize_tv(Slice(full, i, i + TvAt(full, i) - 1))

TvOr(tv0, full) ==
    IF tv0 /= "" THEN tv0
    ELSE TvFound(full, LeastOr0({i \in 1..Len(full) : TvAt(full, i) > 0}))

RowTv(texts, full, col_tv) ==
    TvOr(IF col_tv > 0 /\ col_tv <= Len(texts)
         THEN normalize_tv(texts[col_tv]) ELSE "", full)

\* i: the leftmost match of the result pattern in full (0: none)
ResultFound(full, i) == IF i = 0 THEN "" ELSE ResultAt(full, i)

RowResult(texts, full, col_result) ==
    IF CellOr(texts, col_result, "") /= "" THEN texts[col_result]
    ELSE ResultFound(full,
                     LeastOr0({i \in 1..Len(full) : ResultAt(full, i) /= ""}))

\* a row filter that forgets the test of the date
RowSurvives_NoDateTest(texts, game_date, opponent) ==
    /\ Len(texts) >= 2
    /\ \E k \in 1..Len(texts) : texts[k] /= ""
    /\ Len(opponent) >= 2

\* a row is used when it has at least two cells, not all of them empty, a date
\* and an opponent of at least two characters after cleaning
RowSurvives(texts, game_date, opponent) ==
    /\ Len(texts) >= 2
    /\ \E k \in 1..Len(texts) : texts[k] /= ""
    /\ game_date /= ""
    /\ Len(opponent) >= 2

\* games.append({...})
Game(school_name, texts, full, times, col, game_date, opponent) ==
    [school    |-> school_name,
     date      |-> game_date,
     time      |-> RowTime(texts, times, col["time"]),
     opponent  |-> opponent,
     home_away |-> RowHomeAway(texts, full, col["loc"], col["opp"]),
     location  |-> CellOr(texts, col["loc"], ""),
     tv        |-> RowTv(texts, full, col["tv"]),
     result    |-> RowResult(texts, full, col["result"])]

RowGames(school_name, texts, times, col, game_date, opponent) ==
    IF RowSurvives(texts, game_date, opponent)
    THEN <<Game(school_name, texts, JoinSp(texts), times, col, game_date,
                opponent)>>
    ELSE <<>>

RowWithDates(school_name, texts, dates, col) ==
    RowGames(school_name, texts,
             [k \in 1..Len(texts) |-> parse_time(texts[k])], col,
             RowDate(dates, col["date"]),
             CleanOpponent(RowOpponent(texts, dates, col["opp"])))

RowTexts(school_name, texts, col) ==
    RowWithDates(school_name, texts,
                 [k \in 1..Len(texts) |-> parse_date(texts[k])], col)

\* one pass of the loop over rows[1:]: the records the row adds to games
ParseRow(cells, col, school_name) ==
    RowTexts(school_name, [k \in 1..Len(cells) |-> Strip(cells[k])], col)

RECURSIVE ParseRows(_, _, _)
ParseRows(rows, col, school_name) ==
    IF rows = <<>> THEN <<>>
    ELSE ParseRow(Head(rows), col, school_name)
             \o ParseRows(Tail(rows), col, school_name)

\* a character of [A-Za-z &.'-]
IsNameCh(c) == IsAlpha(c) \/ c \in {" ", "&", ".", "'", "-"}

RECURSIVE SkipName(_, _)
SkipName(s, i) == IF IsNameCh(Ch(s, i)) THEN SkipName(s, i + 1) ELSE i

\* (?:vs\.?|at)\s+([A-Z][A-Za-z &.'-]+) at position i: group 1, "" if none
ListOppAt(s, i) ==
    LET j == IF Slice(s, i, i + 1) = "vs" /\ Ch(s, i + 2) = "."
             THEN i + 3 ELSE i + 2
        k == SkipSpaces(s, j)
        e == SkipName(s, k + 1)
    IN  IF /\ Slice(s, i, i + 1) \in {"vs", "at"}
           /\ k > j /\ IsUpper(Ch(s, k)) /\ e > k + 1
        THEN Slice(s, k, e - 1) ELSE ""

ListOppFound(t, i) == IF i = 0 THEN "" ELSE Strip(ListOppAt(t, i))

ListOpponent(t) ==
    ListOppFound(t, LeastOr0({i \in 1..Len(t) : ListOppAt(t, i) /= ""}))

ItemGames(school_name, t, game_date, opponent) ==
    IF game_date = "" \/ opponent = "" THEN <<>>
    ELSE << [school    |-> school_name,
             date      |-> game_date,
             time      |-> parse_time(t),
             opponent  |-> opponent,
             home_away |-> IF WordIn(Prefix(t, 40), "at") THEN "Away" ELSE "Home",
             location  |-> "",
             tv        |-> "",
             result    |-> ""] >>

ItemText(school_name, t) ==
    ItemGames(school_name, t, parse_date(t), ListOpponent(t))

\* one pass of the loop over containers
ParseItem(raw, school_name) == ItemText(school_name, Strip(raw))

RECURSIVE parse_list_layout(_, _)
parse_list_layout(items, school_name) ==
    IF items = <<>> THEN <<>>
    ELSE ParseItem(Head(items), school_name)
             \o parse_list_layout(Tail(items), school_name)

\* the table strategy on best_table: rows[1:] parsed under the header's columns
TableGames(tbl, school_name) ==
    IF tbl = <<>> THEN <<>>
    ELSE ParseRows(Tail(tbl), Cols(Head(tbl)), school_name)

\* b: the index of best_table, 0 for None
PageGames(doc, school_name, b) ==
    IF b = 0 THEN parse_list_layout(doc.items, school_name)
    ELSE TableGames(doc.tables[b], school_name)

parse_print_page(doc, school_name) ==
    PageGames(doc, school_name, BestTable(doc.tables))

-----------------------------------------------------------------------------
(* The variables of the pipelines a specification does not exercise *)

IdleFn    == text = "" /\ result = "" /\ phase = "idle"
IdleSched == /\ sheet = <<>> /\ pre_sheet = <<>> /\ schools = <<>>
             /\ today = FALSE /\ si = 0 /\ all_games = <<>>
             /\ existing = <<>> /\ reads = 0 /\ spc = "idle"
             /\ pages = <<>> /\ run = 0 /\ rerun = FALSE
IdleStats == /\ tabs = <<>> /\ pre_tabs = <<>> /\ players = <<>>
             /\ pi = 0 /\ cat = 0 /\ mapped = <<>>
             /\ old_row = <<>> /\ tpc = "idle" /\ site = <<>>
             /\ notify_ok = FALSE /\ stat_run = 0 /\ clock = ""

-----------------------------------------------------------------------------
(* scrape_schedule.main *)

MaxRuns == 2

\* schools.json
SchoolsFile ==
    << [school |-> "Navy", schedule_url |-> "https://navysports.com/schedule",
        division |-> "D1", espn_team_id |-> "2426"],
       [school |-> "Army", schedule_url |-> "https://goarmy.com/schedule/",
        division |-> "D1", espn_team_id |-> "349"],
       [school |-> "Rice", schedule_url |-> "",
        division |-> "D1", espn_team_id |-> "242"] >>

SchoolNames == {SchoolsFile[k].school : k \in 1..Len(SchoolsFile)}

\* values of --school ("" when the option is not given)
SchoolArgs == {"", "navy", "y", "Duke"}

\* date.today().isoformat()
today_str == "2026-02-14"

\* datetime.now().strftime('%Y-%m-%d %H:%M') during run r
Now(r) == today_str \o " " \o Pad2(8 + r) \o ":00"

\* the documents a print URL may serve
Docs ==
    [table |->
        [tables |-> << << <<"Date", "Opponent", "Location", "Time">>,
                          <<"Feb 14", "at Clemson W 7-3", "Clemson", "18:00">>,
                          <<"Feb 15", "vs. Duke", "", "1 PM">>,
                          <<"Feb 15", "vs. Duke", "", "4 PM">>,
                          <<"TBA", "vs. Tulane", "", "">>,
                          <<"Feb 20", "X", "", "">> >> >>,
         items  |-> <<>>],
     single |->
        [tables |-> << << <<"Date", "Opponent">>,
                          <<"2/14/26", "Duke">> >> >>,
         items  |-> <<>>],
     note |->
        [tables |-> << << <<"Notes">>,
                          <<"Schedule updated Feb 14">>,
                          <<"Sept 5", "Fall scrimmage">> >> >>,
         items  |-> <<"Feb 14 vs Duke 6 PM">>],
     list |->
        [tables |-> << << <<"Roster">>, <<"Smith">> >> >>,
         items  |-> <<"Feb 14 vs Duke 6 PM", "at Tulane", "Mar 3 at Tulane",
                      "Mar 4 vs tulane">>],
     none |->
        [tables |-> <<>>, items |-> <<>>]]

DocNames == DOMAIN Docs

\* a response whose parsing raises (BeautifulSoup or, under --debug, write_text)
Malformed == "malformed"

\* what the two print URLs of one school answer: "error" (requests raises),
\* "404" (status_code /= 200), "short" (len(r.text) <= 500) or a document
WebChoices ==
    { <<"error", "error">>, <<"404", "short">>, <<"short", "table">>,
      <<"single", "table">>, <<"note", "error">>, <<"list", "error">>,
      <<"none", "error">>, <<Malformed, "error">> }

Webs == {w \in [SchoolNames -> WebChoices] :
            /\ w["Rice"] = <<"error", "error">>
            /\ w["Army"] \in { <<"error", "error">>, <<"single", "table">>,
                               <<Malformed, "error">> }}

CanParse(resp) == resp \in DocNames \/ resp = Malformed

\* fetch_print_page: the first response with status 200 and a long body
NoPage == "None"
fetch_print_page(resps) ==
    IF CanParse(resps[1]) THEN resps[1]
    ELSE IF CanParse(resps[2]) THEN resps[2]
    ELSE NoPage

\* parse_print_page on every document, for every school name
PageResults ==
    {[school |-> n, doc |-> d, games |-> parse_print_page(Docs[d], n)] :
        n \in SchoolNames, d \in DocNames}

Parsed(n, d) == (CHOOSE r \in PageResults : r.school = n /\ r.doc = d).games

\* the three additions of main's loop to a record
Tag(g, entry, now) ==
    [school |-> g.school, division |-> entry.division, date |-> g.date,
     time |-> g.time, opponent |-> g.opponent, home_away |-> g.home_away,
     location |-> g.location, tv |-> g.tv, result |-> g.result,
     espn_team_id |-> entry.espn_team_id, last_updated |-> now]

\* the records one entry adds to all_games
Contribution(entry, games, td, now) ==
    LET tagged == [k \in 1..Len(games) |-> Tag(games[k], entry, now)]
    IN  IF td THEN SelectSeq(tagged, LAMBDA g : g.date = today_str)
        ELSE tagged

\* schools after the --school filter
SelectSchools(arg) ==
    IF arg = "" THEN SchoolsFile
    ELSE SelectSeq(SchoolsFile, LAMBDA e : Contains(Lower(e.school), Lower(arg)))

scraped_schools(sel) == {sel[k].school : k \in 1..Len(sel)}

\* a writer that keeps only the rows of schools missing from schools.json
Kept_Unlisted(rows, sel) ==
    SelectSeq(rows, LAMBDA r : r.school \notin SchoolNames)

\* a writer that keeps every row of the tab
Kept_All(rows, sel) == rows

\* kept: the rows of the tab that belong to no school of this run
Kept(rows, sel) == SelectSeq(rows, LAMBDA r : r.school \notin scraped_schools(sel))

\* a main that also skips the writer for a single record
SkipsPersistence_UpToOne(games) == Len(games) <= 1

\* "if not all_games": nothing to write
SkipsPersistence(games) == games = <<>>

\* a tab left by earlier use
OldSheet ==
    LET Row(n, d, o, u) ==
            [school |-> n, division |-> "D1", date |-> d, time |-> "TBD",
             opponent |-> o, home_away |-> "Home", location |-> "",
             tv |-> "", result |-> "", espn_team_id |-> "",
             last_updated |-> u]
    IN  << Row("Navy", "2026-02-10", "Duke", "2026-02-01 08:00"),
           Row("Duke", "2026-02-10", "Navy", "2026-02-01 08:00"),
           Row("Army", "2026-02-11", "Rice", "2026-02-01 08:00"),
           Row("Rice", "2026-02-11", "Army", "2026-02-01 08:00"),
           Row("Duke", "2026-02-12", "Army", "2026-02-02 08:00") >>

\* argument parsing, load_schools and the --school filter
Begin(arg, td) ==
    /\ schools'   = SelectSchools(arg)
    /\ today'     = td
    /\ si'        = 1
    /\ all_games' = <<>>
    /\ existing'  = <<>>
    /\ reads'     = 0
    /\ spc'       = IF SelectSchools(arg) = <<>> THEN "exit" ELSE "loop"

InitSchedule ==
    /\ sheet \in {<<>>, OldSheet}
    /\ pre_sheet = sheet
    /\ run = 1
    /\ rerun = FALSE
    /\ \E arg \in SchoolArgs, td \in BOOLEAN, web \in Webs :
          /\ schools   = SelectSchools(arg)
          /\ today     = td
          /\ pages     = web
          /\ spc       = IF SelectSchools(arg) = <<>> THEN "exit" ELSE "loop"
    /\ si = 1 /\ all_games = <<>> /\ existing = <<>> /\ reads = 0
    /\ IdleFn /\ IdleStats

InLoop == spc = "loop" /\ si <= Len(schools)
Entry  == schools[si]
Page   == fetch_print_page(pages[Entry.school])

\* scrape_school returns [] for an entry without schedule_url
ScrapeNoUrl ==
    /\ InLoop /\ Entry.schedule_url = ""
    /\ si' = si + 1
    /\ UNCHANGED <<sheet, pre_sheet, schools, today, all_games, existing,
                   reads, spc, pages, run, rerun, fnVars, statVars>>

\* scrape_school returns [] when neither print URL gave a page
ScrapeFetchFailed ==
    /\ InLoop /\ Entry.schedule_url /= "" /\ Page = NoPage
    /\ si' = si + 1
    /\ UNCHANGED <<sheet, pre_sheet, schools, today, all_games, existing,
                   reads, spc, pages, run, rerun, fnVars, statVars>>

\* the page is parsed, its records tagged, filtered and added to all_games
ScrapeParsed ==
    /\ InLoop /\ Entry.schedule_url /= "" /\ Page \in DocNames
    /\ all_games' = all_games \o
           Contribution(Entry, Parsed(Entry.school, Page), today, Now(run))
    /\ si' = si + 1
    /\ UNCHANGED <<sheet, pre_sheet, schools, today, existing,
                   reads, spc, pages, run, rerun, fnVars, statVars>>

\* parse_print_page raises: nothing between it and the top of main catches
ScrapeRaised ==
    /\ InLoop /\ Entry.schedule_url /= "" /\ Page = Malformed
    /\ spc' = "crashed"
    /\ UNCHANGED <<sheet, pre_sheet, schools, today, si, all_games, existing,
                   reads, pages, run, rerun, fnVars, statVars>>

\* "No games to write."
NoGames ==
    /\ spc = "loop" /\ si > Len(schools) /\ SkipsPersistence(all_games)
    /\ spc' = "done"
    /\ UNCHANGED <<sheet, pre_sheet, schools, today, si, all_games, existing,
                   reads, pages, run, rerun, fnVars, statVars>>

\* existing = ws.get_all_records()
ReadSheet ==
    /\ spc = "loop" /\ si > Len(schools) /\ ~SkipsPersistence(all_games)
    /\ existing' = sheet
    /\ reads' = reads + 1
    /\ spc' = "clear"
    /\ UNCHANGED <<sheet, pre_sheet, schools, today, si, all_games,
                   pages, run, rerun, fnVars, statVars>>

\* ws.clear()
ClearSheet ==
    /\ spc = "clear"
    /\ sheet' = <<>>
    /\ spc' = "update"
    /\ UNCHANGED <<pre_sheet, schools, today, si, all_games, existing,
                   reads, pages, run, rerun, fnVars, statVars>>

\* ws.update(values=rows, range_name='A1'): kept rows, then all_games
UpdateSheet ==
    /\ spc = "update"
    /\ sheet' = Kept(existing, schools) \o all_games
    /\ spc' = "done"
    /\ UNCHANGED <<pre_sheet, schools, today, si, all_games, existing,
                   reads, pages, run, rerun, fnVars, statVars>>

\* the process is stopped from outside
AbortSchedule ==
    /\ spc \in {"loop", "clear", "update"}
    /\ spc' = "aborted"
    /\ UNCHANGED <<sheet, pre_sheet, schools, today, si, all_games, existing,
                   reads, pages, run, rerun, fnVars, statVars>>

\* the script is started again, with any arguments, while the sites answer as
\* they did
NewRun ==
    /\ spc \in {"done", "exit", "crashed", "aborted"}
    /\ run < MaxRuns
    /\ run' = run + 1
    /\ rerun' = FALSE
    /\ pre_sheet' = sheet
    /\ \E arg \in SchoolArgs, td \in BOOLEAN : Begin(arg, td)
    /\ UNCHANGED <<sheet, pages, fnVars, statVars>>

\* the script is started again after a finished run, with the same arguments,
\* the same date and the same answers of the sites
Rerun ==
    /\ spc = "done"
    /\ run < MaxRuns
    /\ run' = run + 1
    /\ rerun' = TRUE
    /\ pre_sheet' = sheet
    /\ si' = 1 /\ all_games' = <<>> /\ existing' = <<>> /\ reads' = 0
    /\ spc' = "loop"
    /\ UNCHANGED <<sheet, schools, today, pages, fnVars, statVars>>

NextSchedule ==
    \/ ScrapeNoUrl \/ ScrapeFetchFailed \/ ScrapeParsed \/ ScrapeRaised
    \/ NoGames \/ ReadSheet \/ ClearSheet \/ UpdateSheet
    \/ AbortSchedule \/ NewRun \/ Rerun

SpecSchedule == InitSchedule /\ [][NextSchedule]_vars

-----------------------------------------------------------------------------
(* Properties of the schedule writer *)

\* the rows of a tab whose SCHOOL is outside the scope of the current run
OutOfScope(rows) ==
    SelectSeq(rows, LAMBDA r : \A k \in 1..Len(schools) :
                                   r.school /= schools[k].school)

\* C1: after a run that wrote at least one game, the rows of the tab whose
\* SCHOOL is not among the schools selected for the run are the pre-run rows
\* of those schools: same values, same relative order, none deleted, blanked
\* or duplicated
C1_OutOfScopeRowsKept ==
    (spc = "done" /\ all_games /= <<>>)
        => OutOfScope(sheet) = OutOfScope(pre_sheet)

\* a run with games, over a tab that held rows of schools inside and outside
\* its scope
C1_Witness ==
    /\ spc = "done" /\ all_games /= <<>>
    /\ OutOfScope(pre_sheet) /= <<>>
    /\ OutOfScope(pre_sheet) /= pre_sheet

\* C2: after the schedule run has been repeated on identical input, the tab
\* holds exactly one row per (school, date, opponent) of every school of the run
C2_OneRowPerKey ==
    (spc = "done" /\ rerun /\ all_games /= <<>>)
        => \A i, j \in 1..Len(sheet) :
              ( /\ sheet[i].school \in scraped_schools(schools)
                /\ sheet[i].school = sheet[j].school
                /\ sheet[i].date = sheet[j].date
                /\ sheet[i].opponent = sheet[j].opponent ) => i = j

\* C3: the tab is read, cleared and updated exactly in the runs whose
\* aggregated records are not empty; a run without records leaves the tab as
\* it was
C3_EmptyRunSkipsStore ==
    /\ spc \in {"clear", "update"} => all_games /= <<>>
    /\ spc = "done" =>
          /\ (reads = 0) <=> (all_games = <<>>)
          /\ all_games = <<>> => sheet = pre_sheet

\* a finished run over a non-empty tab that visited its schools and found
\* nothing
C3_Witness ==
    /\ spc = "done" /\ all_games = <<>> /\ reads = 0
    /\ si > 1 /\ pre_sheet /= <<>> /\ sheet = pre_sheet

\* a source of the run that fails: no URL, no page fetched, or a page on which
\* the parser raises
Failing(entry) ==
    \/ entry.schedule_url = ""
    \/ fetch_print_page(pages[entry.school]) \in {NoPage, Malformed}

\* C8: a failing source never stops the run: the run reaches its end with
\* every selected source visited and no record from a failing one
C8_FailureIsolation ==
    /\ spc /= "crashed"
    /\ spc = "done" =>
          /\ si = Len(schools) + 1
          /\ \A k \in 1..Len(schools), g \in 1..Len(all_games) :
                Failing(schools[k]) => all_games[g].school /= schools[k].school

-----------------------------------------------------------------------------
(* scraper.main.                                                            *)
(* A row of a statistics tab is kept as a record: the five leading cells    *)
(* and, in stats, the cells write_stats put in the row for the category.    *)

MaxStatRuns == 2

None == "None"

\* None where a row (a dictionary) may stand
NoRow == [none |-> TRUE]

\* the Players tab
PlayersTab ==
    << [PlayerID |-> "101", Name |-> "Ann Lee", School |-> "Navy",
        Division |-> "D1", Type |-> "Hitter", Jersey |-> "7"],
       [PlayerID |-> "202", Name |-> "Bo Ray", School |-> "Army",
        Division |-> "D1", Type |-> "Pitcher", Jersey |-> "21"],
       [PlayerID |-> "303", Name |-> "Cy Fox", School |-> "Rice",
        Division |-> "D3", Type |-> "Hitter", Jersey |-> " "] >>

\* values of test_player_id
TestIds == {None, "202", "999"}

\* datetime.now().strftime("%Y-%m-%d %H:%M") at successive minutes
Clocks == <<"2026-02-14 08:00", "2026-02-14 08:01">>

\* The pages a Stats_URL may show.  A page is the sequence of its tables, a
\* table the sequence of its rows; the first row holds the texts of its th and
\* td cells, the other rows the texts of their td cells (a name in a th cell
\* is not among them).
StatPages ==
    [team |->
        << << <<"Roster">>, <<"7">>, <<"21">> >>,
           << <<"#", "Player", "AVG", "OPS", "GP-GS", "AB", "R", "H", "2B",
                "3B", "HR", "RBI", "SLG%", "BB", "HBP", "SO", "OB%", "SF",
                "SH", "SB-ATT">>,
              <<>>,
              <<"8", ".250", "", "10-2", "20", "3", "5", "1", "0", "0", "2",
                ".300", "1", "0", "9", ".286", "0", "0", "1-1">>,
              <<"7", ".300", ".900", "10-9", "30", "6", "9", "2", "0", "2",
                "7", ".500", "4", "1", "5", ".400", "1", "0", "3-4">>,
              <<"7", ".000", ".000", "1-0", "1", "0", "0", "0", "0", "0",
                "0", ".000", "0", "0", "1", ".000", "0", "0", "0-0">> >>,
           << <<"#", "Player", "ERA", "WHIP", "W-L", "APP-GS", "SV", "IP",
                "H", "R", "ER", "BB", "SO", "HBP">>,
              <<"21", "Ray, Bo", "3.00", "1.04", "2-1", "5-4", "0", "27.0",
                "20", "10", "9", "8", "30", "2">> >>,
           << <<"#", "Player", "C", "PO", "A", "E", "FLD%", "DP">>,
              <<" 7 ", "20", "12", "7", "1", ".950">> >> >>,
     other |->
        << << <<"#", "Player", "AVG", "AB">>, <<"17", ".300", "30">>,
              <<"77", ".200", "10">> >>,
           << <<"#", "Player", "ERA", "IP">>, <<"2", "Doe", "3.00", "27.0">>,
              <<"211", "Roe", "9.00", "1.0">> >>,
           << <<"#", "Player", "FLD%", "PO">>, <<"17", "1.000", "3">> >> >>,
     bare |->
        << << <<"#", "AVG", "AB", "ERA", "IP", "FLD%", "PO">> >>,
           << <<"#", "AVG", "ERA", "FLD%">>, <<"7", ".300", "3.00", ".950">>,
              <<"21", ".300", "3.00", ".950">> >> >>,
     empty |-> <<>>]

PageNames == DOMAIN StatPages

\* what a player's Stats_URL gives when main scrapes a category: one of the
\* pages, or a navigation that times out
SiteKeys == { <<"101", "batting">>, <<"101", "defense">>, <<"202", "pitching">> }
Sites    == [SiteKeys -> {"team", "other", "bare", "timeout"}]

StatTabs    == {"Batting", "Defense", "Pitching"}
HistoryTabs == {"Batting_History", "Defense_History", "Pitching_History"}

\* BATTING_MAP, PITCHING_MAP, DEFENSE_MAP: the items in the order of the
\* dictionary; a destination of two names is a tuple of the source
BATTING_MAP ==
    << <<"GP-GS", <<"G", "GS">> >>,
       <<"AB", <<"AB">> >>,   <<"R", <<"R">> >>,     <<"H", <<"H">> >>,
       <<"2B", <<"2B">> >>,   <<"3B", <<"3B">> >>,   <<"HR", <<"HR">> >>,
       <<"RBI", <<"RBI">> >>, <<"BB", <<"BB">> >>,   <<"SO", <<"SO">> >>,
       <<"HBP", <<"HBP">> >>, <<"SH", <<"SAC">> >>,  <<"SF", <<"SF">> >>,
       <<"SB-ATT", <<"SB", "CS">> >>,
       <<"AVG", <<"AVG">> >>, <<"OB%", <<"OBP">> >>, <<"SLG%", <<"SLG">> >>,
       <<"OPS", <<"OPS">> >> >>

PITCHING_MAP ==
    << <<"APP-GS", <<"G", "GS">> >>,
       <<"W-L", <<"W", "L">> >>,
       <<"SV", <<"SV">> >>,   <<"IP", <<"IP">> >>,   <<"H", <<"H">> >>,
       <<"R", <<"R">> >>,     <<"ER", <<"ER">> >>,   <<"BB", <<"BB">> >>,
       <<"SO", <<"SO">> >>,   <<"HBP", <<"HBP">> >>,
       <<"ERA", <<"ERA">> >>, <<"WHIP", <<"WHIP">> >> >>

DEFENSE_MAP ==
    << <<"C", <<"TC">> >>, <<"PO", <<"PO">> >>, <<"A", <<"A">> >>,
       <<"E", <<"E">> >>, <<"FLD%", <<"FLD%">> >>, <<"DP", <<"DP">> >> >>

BATTING_COLS ==
    <<"G", "GS", "AB", "R", "H", "2B", "3B", "HR", "RBI", "BB", "SO",
      "HBP", "SAC", "SF", "SB", "CS", "AVG", "OBP", "SLG", "OPS",
      "ISO", "BABIP", "BB_pct", "K_pct">>
PITCHING_COLS ==
    <<"G", "GS", "W", "L", "SV", "IP", "H", "R", "ER", "BB", "SO",
      "HBP", "ERA", "WHIP", "K_per_9", "BB_per_9", "K_BB", "xFIP",
      "BB_pct", "K_pct">>
DEFENSE_COLS == <<"TC", "PO", "A", "E", "FLD%", "DP">>

\* {"batting": BATTING_MAP, "pitching": PITCHING_MAP, "defense": DEFENSE_MAP}
ColMap(st) ==
    IF st = "batting" THEN BATTING_MAP
    ELSE IF st = "pitching" THEN PITCHING_MAP
    ELSE DEFENSE_MAP

\* a dictionary is a function from its keys; {} is the empty one
EmptyMap == [k \in {} |-> ""]

\* d.get(key, dflt)
Get(d, key, dflt) == IF key \in DOMAIN d THEN d[key] ELSE dflt

\* split_combined(value): value.split("-", 1), both parts stripped
split_combined(value) ==
    LET i == LeastOr0({k \in 1..Len(value) : Ch(value, k) = "-"})
    IN  IF i > 0 THEN <<Strip(Prefix(value, i - 1)), Strip(From(value, i + 1))>>
        ELSE <<"", "">>

\* the entries one item of col_map adds to out
MapItem(raw, item) ==
    IF Len(item[2]) = 2
    THEN (item[2][1] :> split_combined(Get(raw, item[1], ""))[1])
            @@ (item[2][2] :> split_combined(Get(raw, item[1], ""))[2])
    ELSE item[2][1] :> Get(raw, item[1], "")

\* the first loop of map_row over the first k items of col_map
RECURSIVE MapItems(_, _, _)
MapItems(raw, col_map, k) ==
    IF k = 0 THEN EmptyMap
    ELSE MapItem(raw, col_map[k]) @@ MapItems(raw, col_map, k - 1)

\* Numbers are fractions <<numerator, denominator>>; a denominator of 0 stands
\* for the ValueError float raises.
NaN == <<0, 0>>

RECURSIVE Pow10(_)
Pow10(k) == IF k = 0 THEN 1 ELSE 10 * Pow10(k - 1)

\* float(t) for a text without surrounding whitespace
FloatText(t) ==
    LET b == IF Ch(t, 1) \in {"-", "+"} THEN 2 ELSE 1
        i == DigitRun(t, b, Len(t))
        p == IF Ch(t, b + i) = "." THEN 1 ELSE 0
        f == IF p = 1 THEN DigitRun(t, b + i + 1, Len(t)) ELSE 0
    IN  IF i + f > 0 /\ b + i + p + f = Len(t) + 1
        THEN <<(IF Ch(t, 1) = "-" THEN -1 ELSE 1)
                   * ToInt(Slice(t, b, b + i - 1)
                              \o Slice(t, b + i + 1, b + i + f)),
               Pow10(f)>>
        ELSE NaN

\* float(s) for a text of digits with an optional sign and at most one
\* point; the other spellings float accepts (exponents, inf, nan) are not
\* read and count as errors here
Float(s) == FloatText(Strip(s))

\* float(out.get(key, 0))
FloatOf(out, key) == IF key \in DOMAIN out THEN Float(out[key]) ELSE <<0, 1>>

Abs(n) == IF n < 0 THEN -n ELSE n

RECURSIVE Gcd(_, _)
Gcd(a, b) == IF b = 0 THEN a ELSE Gcd(b, a % b)

\* the fraction n / d (d > 0) in lowest terms
Frac(n, d) == <<n \div Gcd(Abs(n), d), d \div Gcd(Abs(n), d)>>

IsNaN(x)    == x[2] = 0
Positive(x) == x[1] > 0
Plus(x, y)  == Frac(x[1] * y[2] + y[1] * x[2], x[2] * y[2])
Minus(x, y) == Frac(x[1] * y[2] - y[1] * x[2], x[2] * y[2])
Times(x, k) == Frac(x[1] * k, x[2])
\* x / y for y > 0
Over(x, y)  == Frac(x[1] * y[2], x[2] * y[1])
AtLeast(x, y) == x[1] * y[2] >= y[1] * x[2]

\* n / d rounded to an integer, ties to the even one (n >= 0, d > 0)
RoundHalfEven(n, d) ==
    IF 2 * (n % d) > d THEN (n \div d) + 1
    ELSE IF 2 * (n % d) < d THEN n \div d
    ELSE IF (n \div d) % 2 = 0 THEN n \div d
    ELSE (n \div d) + 1

\* the digits of n, padded with zeros on the left to k digits
RECURSIVE PadLeft(_, _)
PadLeft(s, k) == IF Len(s) >= k THEN s ELSE PadLeft("0" \o s, k)

\* the text of the scaled magnitude m with k decimals
Decimal(m, k) ==
    IntStr(m \div Pow10(k)) \o "." \o PadLeft(IntStr(m % Pow10(k)), k)

\* f"{x:.kf}"
Fixed(x, k) ==
    (IF x[1] < 0 THEN "-" ELSE "")
        \o Decimal(RoundHalfEven(Abs(x[1]) * Pow10(k), x[2]), k)

\* the em dash the source writes for K_BB without walks, in ASCII
EmDash == "--"

\* bf = ip * 3 + h_p + bb + hbp
BattersFaced(ip, bb, hbp, h_p) == Plus(Plus(Plus(Times(ip, 3), h_p), bb), hbp)

\* BB_pct and K_pct over a denominator that is positive
Rates(bb, so, den) ==
    IF Positive(den)
    THEN ("BB_pct" :> Fixed(Over(Times(bb, 100), den), 1))
            @@ ("K_pct" :> Fixed(Over(Times(so, 100), den), 1))
    ELSE EmptyMap

\* xfip = ((13 * ip / 9) + (3 * (bb + hbp)) - (2 * so)) / ip + 3.10
XFip(ip, bb, so, hbp) ==
    Plus(Over(Minus(Plus(Over(Times(ip, 13), <<9, 1>>),
                         Times(Plus(bb, hbp), 3)),
                    Times(so, 2)),
              ip),
         <<310, 100>>)

\* the "Pitching computed" block: what it adds to out
PitchingOf(ip, bb, so, hbp, h_p) ==
    IF IsNaN(ip) \/ IsNaN(bb) \/ IsNaN(so) \/ IsNaN(hbp) \/ IsNaN(h_p)
    THEN EmptyMap
    ELSE IF ~Positive(ip) THEN EmptyMap
    ELSE Rates(bb, so, BattersFaced(ip, bb, hbp, h_p))
            @@ ("K_per_9" :> Fixed(Times(Over(so, ip), 9), 2))
            @@ ("BB_per_9" :> Fixed(Times(Over(bb, ip), 9), 2))
            @@ ("K_BB" :> IF Positive(bb) THEN Fixed(Over(so, bb), 2)
                          ELSE EmDash)
            @@ ("xFIP" :> Fixed(XFip(ip, bb, so, hbp), 2))

PitchingComputed(out) ==
    PitchingOf(FloatOf(out, "IP"), FloatOf(out, "BB"), FloatOf(out, "SO"),
               FloatOf(out, "HBP"), FloatOf(out, "H"))

\* if slg > 0: out["ISO"] = f"{slg - avg:.3f}"
IsoOf(slg, avg) ==
    IF Positive(slg) THEN "ISO" :> Fixed(Minus(slg, avg), 3) ELSE EmptyMap

\* denom = ab - so - hr + sf; if denom > 0 and h >= hr: out["BABIP"] = ...
BabipOf(denom, h, hr) ==
    IF Positive(denom) /\ AtLeast(h, hr)
    THEN "BABIP" :> Fixed(Over(Minus(h, hr), denom), 3)
    ELSE EmptyMap

\* the "Batting computed" block: what it adds to out
BattingOf(ab, bb, so, hbp, sac, sf, h, hr, slg, avg) ==
    IF \E x \in {ab, bb, so, hbp, sac, sf, h, hr, slg, avg} : IsNaN(x)
    THEN EmptyMap
    ELSE IF ~Positive(ab) THEN EmptyMap
    ELSE BabipOf(Plus(Minus(Minus(ab, so), hr), sf), h, hr)
            @@ IsoOf(slg, avg)
            @@ Rates(bb, so, Plus(Plus(Plus(Plus(ab, bb), hbp), sf), sac))

BattingComputed(out) ==
    BattingOf(FloatOf(out, "AB"), FloatOf(out, "BB"), FloatOf(out, "SO"),
              FloatOf(out, "HBP"), FloatOf(out, "SAC"), FloatOf(out, "SF"),
              FloatOf(out, "H"), FloatOf(out, "HR"), FloatOf(out, "SLG"),
              FloatOf(out, "AVG"))

\* the "OPS fallback" block: what it adds to out
OpsOf(ops, obp, slg) ==
    IF ops /= "" THEN EmptyMap
    ELSE IF IsNaN(obp) \/ IsNaN(slg) THEN EmptyMap
    ELSE "OPS" :> Fixed(Plus(obp, slg), 3)

OpsFallback(out) ==
    OpsOf(Get(out, "OPS", ""), Float(Get(out, "OBP", "0")),
          Float(Get(out, "SLG", "0")))

\* the three blocks in the order of the source, each on what the one before
\* left
WithOps(out)      == OpsFallback(out) @@ out
WithBatting(out)  == WithOps(BattingComputed(out) @@ out)
WithPitching(out) == WithBatting(PitchingComputed(out) @@ out)

map_row(raw, col_map) == WithPitching(MapItems(raw, col_map, Len(col_map)))

\* a zero_stats that returns a mapping without keys
zero_stats_NoKeys(col_map) == EmptyMap

\* zero_stats(col_map): "0" under every destination of the map
zero_stats(col_map) ==
    [d \in UNION {{col_map[k][2][j] : j \in 1..Len(col_map[k][2])} :
                     k \in 1..Len(col_map)} |-> "0"]

\* the categories main processes for a player, in its order
Categories(player) ==
    IF player.Type = "Hitter"
    THEN << [st |-> "batting", tab |-> "Batting", hist |-> "Batting_History",
             cols |-> BATTING_COLS],
            [st |-> "defense", tab |-> "Defense", hist |-> "Defense_History",
             cols |-> DEFENSE_COLS] >>
    ELSE << [st |-> "pitching", tab |-> "Pitching",
             hist |-> "Pitching_History", cols |-> PITCHING_COLS] >>

\* the two headers that mark a table of the stat type
Markers(stat_type) ==
    IF stat_type = "batting" THEN {"AVG", "AB"}
    ELSE IF stat_type = "pitching" THEN {"ERA", "IP"}
    ELSE {"FLD%", "PO"}

\* hdrs = [c.inner_text().strip() for c in rows[0]...]
Headers(table) == [k \in 1..Len(table[1]) |-> Strip(table[1][k])]

\* find_table: the first table of two rows at least whose headers hold both
\* markers of the stat type, 0 for (None, [])
find_table(page, stat_type) ==
    LeastOr0({k \in 1..Len(page) :
                 /\ Len(page[k]) >= 2
                 /\ \A mk \in Markers(stat_type) :
                       \E j \in 1..Len(page[k][1]) : Headers(page[k])[j] = mk})

\* align_headers(hdrs, cells)
align_headers(hdrs, cells) ==
    IF (\E j \in 1..Len(hdrs) : hdrs[j] = "Player")
           /\ Len(hdrs) = Len(cells) + 1
    THEN SelectSeq(hdrs, LAMBDA h : h /= "Player")
    ELSE hdrs

\* {aligned[i]: cells[i] for i in range(min(len(aligned), len(cells)))}: the
\* last cell under a header that stands twice
RawOf(aligned, cells, n) ==
    [h \in {aligned[i] : i \in 1..n} |->
        cells[GreatestOr0({i \in 1..n : aligned[i] = h})]]

Raw(aligned, cells) ==
    RawOf(aligned, cells,
          IF Len(aligned) < Len(cells) THEN Len(aligned) ELSE Len(cells))

\* cells = [c.inner_text().strip() for c in row.query_selector_all("td")]
CellsOf(row) == [k \in 1..Len(row) |-> Strip(row[k])]

\* the first row after the header whose first cell is the jersey, 0 if none
JerseyRow(table, jersey) ==
    LeastOr0({r \in 2..Len(table) :
                 table[r] /= <<>> /\ CellsOf(table[r])[1] = jersey})

\* the loop of scrape over the rows of the table found, r the row of the jersey
ScrapeRow(table, r, col_map) ==
    IF r = 0 THEN zero_stats(col_map)
    ELSE map_row(Raw(align_headers(Headers(table), CellsOf(table[r])),
                     CellsOf(table[r])),
                 col_map)

\* scrape after page.goto, k the table found
ScrapeTable(page, k, jersey, col_map) ==
    IF k = 0 THEN zero_stats(col_map)
    ELSE ScrapeRow(page[k], JerseyRow(page[k], jersey), col_map)

\* scrape: zeros without a jersey number, without a table and without a row
\* for the jersey
scrape(page, player, stat_type) ==
    IF Strip(player.Jersey) = "" THEN zero_stats(ColMap(stat_type))
    ELSE ScrapeTable(page, find_table(page, stat_type), Strip(player.Jersey),
                     ColMap(stat_type))

\* [str(mapped.get(col, "")) for col in target_cols]
StatCells(s, target_cols) ==
    [k \in 1..Len(target_cols) |-> Get(s, target_cols[k], "")]

\* row = [now, pid, Name, School, Division] + the statistics
StatRow(t, player, s, target_cols) ==
    [time |-> t, PlayerID |-> player.PlayerID, Name |-> player.Name,
     School |-> player.School, Division |-> player.Division,
     stats |-> StatCells(s, target_cols)]

\* the first row of existing with the player's id, 0 if there is none
MatchRow(rows, pid) ==
    LeastOr0({i \in 1..Len(rows) : rows[i].PlayerID = pid})

\* a write_stats that never looks for the player's row
write_stats_AlwaysAppend(rows, row, i) ==
    [rows |-> Append(rows, row), ret |-> NoRow]

\* write_stats, i the row found for the player: the tab after the call and
\* the value returned
write_stats(rows, row, i) ==
    IF i > 0 THEN [rows |-> [rows EXCEPT ![i] = row], ret |-> rows[i]]
    ELSE [rows |-> Append(rows, row), ret |-> NoRow]

\* a write_history that leaves out a snapshot the tab already holds
write_history_Dedup(rows, row) ==
    IF \E i \in 1..Len(rows) : rows[i] = row THEN rows ELSE Append(rows, row)

\* write_history: ws.append_row(row)
write_history(rows, row) == Append(rows, row)

\* log: a row of Scrape_Log
LogRow(t, player, status) ==
    [time |-> t, PlayerID |-> player.PlayerID, Name |-> player.Name,
     School |-> player.School, status |-> status]

\* players after the test_player_id filter
SelectPlayers(id) ==
    IF id = None THEN PlayersTab
    ELSE SelectSeq(PlayersTab, LAMBDA p : p.PlayerID = id)

EmptyTabs ==
    [Batting |-> <<>>, Defense |-> <<>>, Pitching |-> <<>>,
     Batting_History |-> <<>>, Defense_History |-> <<>>,
     Pitching_History |-> <<>>, Scrape_Log |-> <<>>]

\* tabs left by earlier runs, with players who are no longer on the Players
\* tab
OldTabs ==
    LET Old(pid, n, s, cols) ==
            [time |-> "2026-02-13 08:00", PlayerID |-> pid, Name |-> n,
             School |-> "Navy", Division |-> "D1",
             stats |-> StatCells(s, cols)]
        Gone == [Jersey |-> "8"]
        Bat0 == zero_stats(BATTING_MAP)
        Bat8 == scrape(StatPages["team"], Gone, "batting")
        Def7 == scrape(StatPages["team"], PlayersTab[1], "defense")
        Pit21 == scrape(StatPages["team"], PlayersTab[2], "pitching")
        Pit0 == zero_stats(PITCHING_MAP)
    IN  [Batting |-> << Old("555", "Di Oh", Bat8, BATTING_COLS),
                        Old("101", "Ann Lee", Bat0, BATTING_COLS) >>,
         Defense |-> << Old("555", "Di Oh", Def7, DEFENSE_COLS) >>,
         Pitching |-> << Old("202", "Bo Ray", Pit21, PITCHING_COLS),
                         Old("556", "Ed Poe", Pit0, PITCHING_COLS) >>,
         Batting_History |-> << Old("555", "Di Oh", Bat8, BATTING_COLS),
                                Old("101", "Ann Lee", Bat0, BATTING_COLS) >>,
         Defense_History |-> << Old("555", "Di Oh", Def7, DEFENSE_COLS) >>,
         Pitching_History |-> << Old("202", "Bo Ray", Pit21, PITCHING_COLS) >>,
         Scrape_Log |-> <<>>]

\* where main starts after the filter: it returns when the id matches nobody
StartAt(sel, id) ==
    IF sel = <<>> THEN (IF id = None THEN "done" ELSE "exit") ELSE "scrape"

InitStats ==
    /\ tabs \in {EmptyTabs, OldTabs}
    /\ pre_tabs = tabs
    /\ \E id \in TestIds :
          /\ players = SelectPlayers(id)
          /\ tpc = StartAt(SelectPlayers(id), id)
    /\ pi = 1 /\ cat = 1 /\ mapped = NoRow /\ old_row = NoRow
    /\ site \in Sites
    /\ notify_ok \in BOOLEAN
    /\ stat_run = 1
    /\ clock \in 1..Len(Clocks)
    /\ IdleFn /\ IdleSched

Player   == players[pi]
Category == Categories(Player)[cat]
Found    == IF <<Player.PlayerID, Category.st>> \in SiteKeys
            THEN site[<<Player.PlayerID, Category.st>>] ELSE "empty"

\* the row write_stats and write_history build for the current category
NewRow   == StatRow(Clocks[clock], Player, mapped, Category.cols)

\* page.goto raises when the navigation times out
Raises(player, found) == Strip(player.Jersey) /= "" /\ found = "timeout"

\* s = scrape(page, player, st)
Scrape ==
    /\ tpc = "scrape" /\ ~Raises(Player, Found)
    /\ mapped' = scrape(StatPages[Found], Player, Category.st)
    /\ tpc' = "write_stats"
    /\ UNCHANGED <<tabs, pre_tabs, players, pi, cat, old_row, site, notify_ok,
                   stat_run, clock, fnVars, schedVars>>

\* scrape raises: the player's try block is left
ScrapeTimeout ==
    /\ tpc = "scrape" /\ Raises(Player, Found)
    /\ tpc' = "log_error"
    /\ UNCHANGED <<tabs, pre_tabs, players, pi, cat, mapped, old_row, site,
                   notify_ok, stat_run, clock, fnVars, schedVars>>

\* the tab and the return value of write_stats for the current category
Written(rows, row) == write_stats(rows, row, MatchRow(rows, row.PlayerID))

\* old_row = write_stats(sheet, tab, player, s, cols)
WriteStats ==
    /\ tpc = "write_stats"
    /\ tabs' = [tabs EXCEPT ![Category.tab] =
                   Written(@, NewRow).rows]
    /\ old_row' = Written(tabs[Category.tab],
                          NewRow).ret
    /\ tpc' = "write_history"
    /\ UNCHANGED <<pre_tabs, players, pi, cat, mapped, site, notify_ok,
                   stat_run, clock, fnVars, schedVars>>

\* write_history(sheet, hist, player, s, cols); the notifications follow for
\* batting and pitching, the end of the player's categories for defense
WriteHistory ==
    /\ tpc = "write_history"
    /\ tabs' = [tabs EXCEPT ![Category.hist] =
                   write_history(@, NewRow)]
    /\ tpc' = IF Category.st = "defense" THEN "log" ELSE "notify"
    /\ UNCHANGED <<pre_tabs, players, pi, cat, mapped, old_row, site,
                   notify_ok, stat_run, clock, fnVars, schedVars>>

\* is_zero_row, push and check_thresholds return: the next category, or the log
NotifyReturns ==
    /\ tpc = "notify" /\ notify_ok
    /\ IF cat < Len(Categories(Player))
       THEN cat' = cat + 1 /\ tpc' = "scrape"
       ELSE cat' = cat /\ tpc' = "log"
    /\ UNCHANGED <<tabs, pre_tabs, players, pi, mapped, old_row, site,
                   notify_ok, stat_run, clock, fnVars, schedVars>>

\* one of them raises: the player's try block is left
NotifyRaises ==
    /\ tpc = "notify" /\ ~notify_ok
    /\ tpc' = "log_error"
    /\ UNCHANGED <<tabs, pre_tabs, players, pi, cat, mapped, old_row, site,
                   notify_ok, stat_run, clock, fnVars, schedVars>>

\* the loop goes to the next player
NextPlayer ==
    /\ pi' = pi + 1
    /\ cat' = 1
    /\ tpc' = IF pi + 1 > Len(players) THEN "done" ELSE "scrape"

\* log(sheet, player, "SUCCESS")
LogSuccess ==
    /\ tpc = "log"
    /\ tabs' = [tabs EXCEPT !.Scrape_Log =
                   Append(@, LogRow(Clocks[clock], Player, "SUCCESS"))]
    /\ NextPlayer
    /\ UNCHANGED <<pre_tabs, players, mapped, old_row, site, notify_ok,
                   stat_run, clock, fnVars, schedVars>>

\* except Exception: log(sheet, player, "ERROR", str(e))
LogError ==
    /\ tpc = "log_error"
    /\ tabs' = [tabs EXCEPT !.Scrape_Log =
                   Append(@, LogRow(Clocks[clock], Player, "ERROR"))]
    /\ NextPlayer
    /\ UNCHANGED <<pre_tabs, players, mapped, old_row, site, notify_ok,
                   stat_run, clock, fnVars, schedVars>>

\* the process is stopped from outside
AbortStats ==
    /\ tpc \in {"scrape", "write_stats", "write_history", "notify", "log",
                "log_error"}
    /\ tpc' = "aborted"
    /\ UNCHANGED <<tabs, pre_tabs, players, pi, cat, mapped, old_row, site,
                   notify_ok, stat_run, clock, fnVars, schedVars>>

\* the script is run again over the same players and pages, in the same minute
\* or a later one
NewStatsRun ==
    /\ tpc = "done" /\ players /= <<>>
    /\ stat_run < MaxStatRuns
    /\ stat_run' = stat_run + 1
    /\ pre_tabs' = tabs
    /\ clock' \in clock..Len(Clocks)
    /\ pi' = 1 /\ cat' = 1 /\ mapped' = NoRow /\ old_row' = NoRow
    /\ tpc' = "scrape"
    /\ UNCHANGED <<tabs, players, site, notify_ok, fnVars, schedVars>>

NextStats ==
    \/ Scrape \/ ScrapeTimeout \/ WriteStats \/ WriteHistory
    \/ NotifyReturns \/ NotifyRaises \/ LogSuccess \/ LogError
    \/ AbortStats \/ NewStatsRun

SpecStats == InitStats /\ [][NextStats]_vars

\* either script is run
InitPipelines == InitSchedule \/ InitStats
NextPipelines == NextSchedule \/ NextStats
SpecPipelines == InitPipelines /\ [][NextPipelines]_vars

-----------------------------------------------------------------------------
(* Properties of the two pipelines and of the statistics writers *)

\* C4: in a run of either script the store is read once and stays as it was
\* when the run started until extraction has finished for every source or
\* player, so a run stopped before the writer step leaves it untouched
C4_WriteIsLast ==
    /\ reads <= 1
    /\ (spc = "loop" /\ si <= Len(schools)) => sheet = pre_sheet
    /\ (spc = "aborted" /\ reads = 0) => sheet = pre_sheet
    /\ tpc = "scrape" => tabs = pre_tabs

\* no two rows of a current-state tab carry the same PlayerID
DistinctIds(rows) ==
    \A i, j \in 1..Len(rows) : rows[i].PlayerID = rows[j].PlayerID => i = j

\* a step of write_stats from a tab before to a tab after with the value ret
\* returned: the player's row overwritten in place and the old row returned,
\* or one row appended and None returned
Upserted(before, after, row, ret) ==
    IF \E i \in 1..Len(before) : before[i].PlayerID = row.PlayerID
    THEN /\ Len(after) = Len(before)
         /\ \A i \in 1..Len(before) :
               IF before[i].PlayerID = row.PlayerID
               THEN after[i] = row /\ ret = before[i]
               ELSE after[i] = before[i]
    ELSE after = Append(before, row) /\ ret = NoRow

\* C5: the current-state tabs never hold two rows of one PlayerID, and every
\* write_stats call overwrites the player's row in place and returns the old
\* row, or appends one row and returns None when the player has none; no
\* other row and no other tab changes
C5_UpsertByPlayerId ==
    /\ [](tpc /= "idle" => \A t \in StatTabs : DistinctIds(tabs[t]))
    /\ [][(tpc = "write_stats" /\ tpc' = "write_history") =>
            /\ Upserted(tabs[Category.tab], tabs'[Category.tab],
                        NewRow, old_row')
            /\ \A t \in DOMAIN tabs : t /= Category.tab => tabs'[t] = tabs[t]]_vars

\* a call has overwritten the row of a player in a tab that holds other rows
C5_Witness ==
    /\ tpc = "write_history" /\ old_row /= NoRow
    /\ Len(tabs[Category.tab]) >= 2
    /\ \E i \in 1..Len(tabs[Category.tab]) :
          tabs[Category.tab][i] = NewRow

\* the rows a tab has gained in the current run
NewRows(t) == SubSeq(tabs[t], Len(pre_tabs[t]) + 1, Len(tabs[t]))

\* the number of rows of a sequence that carry the PlayerID
RowsOf(rows, pid) == Cardinality({i \in 1..Len(rows) : rows[i].PlayerID = pid})

\* the history tabs of a player's categories
HistoryOf(player) ==
    {Categories(player)[k].hist : k \in 1..Len(Categories(player))}

\* the run has logged SUCCESS for the player
Succeeded(player) ==
    \E i \in 1..Len(NewRows("Scrape_Log")) :
        /\ NewRows("Scrape_Log")[i].PlayerID = player.PlayerID
        /\ NewRows("Scrape_Log")[i].status = "SUCCESS"

-----------------------------------------------------------------------------
(* Time normalisation on its own: parse_time applied to one text *)

Minutes   == {"00", "05", "30"}
Meridiems == {"", " PM", " AM", "pm", " a.m.", " p.m."}
Hours     == 0..23

ClockTexts == {IntStr(h) \o ":" \o mm \o ap :
                  h \in Hours, mm \in Minutes, ap \in Meridiems}
BareTexts  == {"6 PM", "6pm", "11 am", "First pitch 6 PM", "x6 pm", "6 pmx",
               "12 PM", "06 PM"}
NoTimeTexts == {"", "TBA", "Feb 14", "at Clemson W 7-3", "2/14/26", "6", "PM",
                "Postponed", "1:5", ":30"}
TimeTexts  == ClockTexts \cup BareTexts \cup NoTimeTexts
                \cup {"Sat 18:00 ESPN+", "Game 2 at 3:30"}

InitTime == /\ text \in TimeTexts /\ result = "" /\ phase = "input"
            /\ IdleSched /\ IdleStats

ParseTime == /\ phase = "input"
             /\ result' = parse_time(text)
             /\ phase' = "done"
             /\ UNCHANGED <<text, schedVars, statVars>>

NextTime == ParseTime
SpecTime == InitTime /\ [][NextTime]_vars

\* C10: parse_time gives "TBD" for a text with no time information, "6:00 PM"
\* for "6 PM", and for every H:MM without a meridiem marker and H in 13..23
\* the 12-hour PM time (H-12):MM PM
C10_TimeNormalization ==
    phase = "done" =>
        /\ (text \in NoTimeTexts => result = "TBD")
        /\ (text = "6 PM" => result = "6:00 PM")
        /\ \A h \in 13..23, mm \in Minutes :
              text = IntStr(h) \o ":" \o mm
                  => result = IntStr(h - 12) \o ":" \o mm \o " PM"

-----------------------------------------------------------------------------
(* Extraction on its own: one table row, one list item or one document is   *)
(* handed to its parser                                                     *)

MaxCells == 3

CellTexts   == {"", "Feb 14", "TBA", "vs. Duke", "at X", "vs.", "18:00"}
HeaderRows  == { <<"Date", "Opponent", "Time">>, <<"Game", "When">> }
ItemTexts   == {"Feb 14 vs Duke 6 PM", "at Tulane", "Mar 3 at Tulane",
                "Mar 4 vs tulane", "Feb 14", "2/14/26 vs. Rice 18:00", "",
                "vs D 3/1/26"}

Candidates ==
    {[kind |-> "row", header |-> h, cells |-> c] :
        h \in HeaderRows, c \in UNION {[1..n -> CellTexts] : n \in 1..MaxCells}}
    \cup {[kind |-> "item", raw |-> t] : t \in ItemTexts}
    \cup {[kind |-> "page", doc |-> d] : d \in DocNames}

InitExtract == /\ text \in Candidates /\ result = <<>> /\ phase = "input"
               /\ IdleSched /\ IdleStats

ExtractRow ==
    /\ phase = "input" /\ text.kind = "row"
    /\ result' = ParseRow(text.cells, Cols(text.header), "Navy")
    /\ phase' = "done"
    /\ UNCHANGED <<text, schedVars, statVars>>

ExtractItem ==
    /\ phase = "input" /\ text.kind = "item"
    /\ result' = ParseItem(text.raw, "Navy")
    /\ phase' = "done"
    /\ UNCHANGED <<text, schedVars, statVars>>

ExtractPage ==
    /\ phase = "input" /\ text.kind = "page"
    /\ result' = parse_print_page(Docs[text.doc], "Navy")
    /\ phase' = "done"
    /\ UNCHANGED <<text, schedVars, statVars>>

NextExtract == ExtractRow \/ ExtractItem \/ ExtractPage
SpecExtract == InitExtract /\ [][NextExtract]_vars

\* what the table strategy gives for a document: nothing without a scored table
TableStrategy(doc) ==
    IF BestTable(doc.tables) = 0 THEN <<>>
    ELSE TableGames(doc.tables[BestTable(doc.tables)], "Navy")

\* C7: the strategies run in a fixed order and the list strategy runs exactly
\* when the table strategy returned no record, so a document gives no record
\* only when both strategies give none
C7_FallbackChain ==
    (phase = "done" /\ text.kind = "page") =>
        result = IF TableStrategy(Docs[text.doc]) /= <<>>
                 THEN TableStrategy(Docs[text.doc])
                 ELSE parse_list_layout(Docs[text.doc].items, "Navy")

\* the candidate holds no text that normalizes to a date
NoDate(c) ==
    IF c.kind = "row"
    THEN \A k \in 1..Len(c.cells) : parse_date(c.cells[k]) = ""
    ELSE parse_date(c.raw) = ""

\* the opponent of the candidate is empty after cleaning
NoOpponent(c) ==
    IF c.kind = "row"
    THEN CleanOpponent(
             RowOpponent([k \in 1..Len(c.cells) |-> Strip(c.cells[k])],
                         [k \in 1..Len(c.cells) |-> parse_date(c.cells[k])],
                         Cols(c.header)["opp"])) = ""
    ELSE ListOpponent(Strip(c.raw)) = ""

\* C9: every record a table row or a list item gives has a non-empty date and a
\* non-empty opponent (of two characters at least for a table row); a candidate
\* without a date, or whose opponent is empty after cleaning, gives no record
C9_DiscardInvariant ==
    (phase = "done" /\ text.kind \in {"row", "item"}) =>
        /\ \A k \in 1..Len(result) :
              /\ result[k].date /= ""
              /\ result[k].opponent /= ""
              /\ text.kind = "row" => Len(result[k].opponent) >= 2
        /\ NoDate(text) => result = <<>>
        /\ NoOpponent(text) => result = <<>>

\* a row with an opponent but no date has been parsed and dropped
C9_Witness ==
    /\ phase = "done" /\ text.kind = "row" /\ Len(text.cells) >= 2
    /\ NoDate(text) /\ ~NoOpponent(text) /\ result = <<>>

-----------------------------------------------------------------------------
(* Date normalisation on its own: parse_date applied to one text, and then  *)
(* to its own result                                                        *)

SlashYears == {"26", "99", "026", "126", "2026", "1999"}
SlashTexts == {m \o "/" \o d \o "/" \o y :
                  m \in {"3", "03", "12"}, d \in {"1", "14", "31"},
                  y \in SlashYears}
IsoTexts   == {"2026-03-14", "2027-02-01", "Sat 2026-03-14 6 PM", "2026-3-14",
               "12026-03-14", "26-03-14"}
NameTexts  == {mo \o " " \o d \o y :
                  mo \in {"March", "Mar.", "feb", "Sept", "DEC"},
                  d \in {"1", "14", "14th", "2nd"},
                  y \in {"", ", 2026", " 2027", ",2025"}}
NoDateTexts == {"", "TBA", "vs. Duke", "18:00", "3/14", "March", "Marchx 14",
                "14 March", "3/14/2", "3/14/20261"}
DateTexts  == SlashTexts \cup IsoTexts \cup NameTexts \cup NoDateTexts

\* a string of the form YYYY-MM-DD
IsCanonicalDate(s) ==
    /\ Len(s) = 10
    /\ \A i \in {1, 2, 3, 4, 6, 7, 9, 10} : IsDigit(Ch(s, i))
    /\ Ch(s, 5) = "-" /\ Ch(s, 8) = "-"

InitDate == /\ text \in DateTexts /\ result = <<>> /\ phase = "input"
            /\ IdleSched /\ IdleStats

ParseDate == /\ phase = "input"
             /\ result' = <<parse_date(text)>>
             /\ phase' = "once"
             /\ UNCHANGED <<text, schedVars, statVars>>

\* a non-empty result is normalised again
ReparseDate == /\ phase = "once" /\ result[1] /= ""
               /\ result' = Append(result, parse_date(result[1]))
               /\ phase' = "twice"
               /\ UNCHANGED <<text, schedVars, statVars>>

NextDate == ParseDate \/ ReparseDate
SpecDate == InitDate /\ [][NextDate]_vars

\* C11: parse_date returns the empty string or a string of the form
\* YYYY-MM-DD, and a non-empty result normalised again is returned unchanged,
\* for ISO texts, M/D/Y texts with a year field of 2 to 4 digits and
\* month-name texts
C11_DateIdempotence ==
    /\ phase \in {"once", "twice"} =>
          (result[1] = "" \/ IsCanonicalDate(result[1]))
    /\ phase = "twice" => result[2] = result[1]

-----------------------------------------------------------------------------
(* Home/away on its own: one table row with a date, an opponent cell, a     *)
(* third cell that the header makes the location or not, and a note         *)

VenueHeaders == { <<"Date", "Opponent", "Location", "Notes">>,
                  <<"Date", "Opponent", "Info", "Notes">> }
OppCells   == {"Duke", "at Duke", "vs. Duke", "at Clemson W 7-3", "@ Duke",
               "Duke Classic"}
LocCells   == {"", "Durham, N.C.", "Neutral site", "Away", "@ Durham"}
NoteCells  == {"", "Tournament game", "moved away"}

VenueRows ==
    {[header |-> h, cells |-> <<"Feb 14", o, l, n>>] :
        h \in VenueHeaders, o \in OppCells, l \in LocCells, n \in NoteCells}

InitVenue == /\ text \in VenueRows /\ result = <<>> /\ phase = "input"
             /\ IdleSched /\ IdleStats

ClassifyRow ==
    /\ phase = "input"
    /\ result' = ParseRow(text.cells, Cols(text.header), "Navy")
    /\ phase' = "done"
    /\ UNCHANGED <<text, schedVars, statVars>>

NextVenue == ClassifyRow
SpecVenue == InitVenue /\ [][NextVenue]_vars

\* what the keywords of one text say: away/@ give Away, neutral, tournament,
\* tourney and classic give Neutral, "" when the text holds none of them
KeywordVerdict(s) ==
    IF WordIn(s, "away") \/ (Ch(s, 1) = "@" /\ IsSpace(Ch(s, 2))) THEN "Away"
    ELSE IF \E w \in {"neutral", "tournament", "tourney", "classic"} :
                WordIn(s, w)
    THEN "Neutral"
    ELSE ""

\* the verdict of the first of location cell, opponent prefix and row text
\* that gives one, Home when none does
ByPrecedence(row) ==
    LET loc  == CellOr(row.cells, Cols(row.header)["loc"], "")
        opp  == CellOr(row.cells, Cols(row.header)["opp"], "")
        full == JoinSp(row.cells)
    IN  IF KeywordVerdict(loc) /= "" THEN KeywordVerdict(loc)
        ELSE IF StartsAway(opp) THEN "Away"
        ELSE IF KeywordVerdict(Prefix(full, 60)) /= ""
        THEN KeywordVerdict(Prefix(full, 60))
        ELSE "Home"

\* C12: home_away of a table row is the verdict of the first of location
\* cell, opponent prefix and surrounding row text that gives one (Home when
\* none does), so a signal of lower precedence never overrides one of higher
\* precedence; an opponent cell "at Clemson W 7-3" with no signal in a
\* location cell gives opponent Clemson and Away
C12_HomeAwayPrecedence ==
    (phase = "done" /\ Len(text.header) = 4 /\ result /= <<>>) =>
        /\ result[1].home_away = ByPrecedence(text)
        /\ (/\ text.cells[2] = "at Clemson W 7-3"
            /\ KeywordVerdict(
                   CellOr(text.cells, Cols(text.header)["loc"], "")) = "")
              => (result[1].opponent = "Clemson"
                  /\ result[1].home_away = "Away")

-----------------------------------------------------------------------------
(* The mapping of one player's statistics on its own: map_row applied to a  *)
(* raw row of a category, or zero_stats on a miss                           *)

BattingRaws ==
    {("GP-GS" :> gp) @@ ("AB" :> ab) @@ ("R" :> "6") @@ ("H" :> "9")
        @@ ("2B" :> "2") @@ ("3B" :> "0") @@ ("HR" :> "2") @@ ("RBI" :> "7")
        @@ ("BB" :> "4") @@ ("SO" :> so) @@ ("HBP" :> "1") @@ ("SH" :> "0")
        @@ ("SF" :> "1") @@ ("SB-ATT" :> "3-4") @@ ("AVG" :> ".300")
        @@ ("OB%" :> ".400") @@ ("SLG%" :> slg) @@ ("OPS" :> ops) :
        gp \in {"10-9", "10"}, ab \in {"", "0", "30"}, so \in {"5", "40"},
        slg \in {"", ".000", ".500"}, ops \in {"", ".900"}}

PitchingRaws ==
    {("APP-GS" :> "5-4") @@ ("W-L" :> wl) @@ ("SV" :> "0") @@ ("IP" :> ip)
        @@ ("H" :> "20") @@ ("R" :> "10") @@ ("ER" :> "9") @@ ("BB" :> bb)
        @@ ("SO" :> so) @@ ("HBP" :> "2") @@ ("ERA" :> "3.00")
        @@ ("WHIP" :> "1.04") :
        wl \in {"2-1", ""}, ip \in {"", "0.0", "9.0", "12.1"},
        bb \in {"0", "3"}, so \in {"0", "12", "50"}}

DefenseRaws ==
    {("C" :> "20") @@ ("PO" :> "12") @@ ("A" :> "7") @@ ("E" :> "1")
        @@ ("FLD%" :> ".950") @@ ("DP" :> "2"),
     ("C" :> "20") @@ ("PO" :> "12"),
     ("PO" :> "") @@ ("FLD%" :> "")}

\* a raw row whose table has only the marker columns of its stat type
ShortRaws ==
    [batting  |-> ("AVG" :> ".300") @@ ("AB" :> "30"),
     pitching |-> ("ERA" :> "3.00") @@ ("IP" :> "27.0"),
     defense  |-> ("FLD%" :> ".950") @@ ("PO" :> "12")]

StatTypes == {"batting", "pitching", "defense"}

MapInputs ==
    {[kind |-> "row", st |-> "batting", raw |-> r] : r \in BattingRaws}
    \cup {[kind |-> "row", st |-> "pitching", raw |-> r] : r \in PitchingRaws}
    \cup {[kind |-> "row", st |-> "defense", raw |-> r] : r \in DefenseRaws}
    \cup {[kind |-> "row", st |-> st, raw |-> ShortRaws[st]] : st \in StatTypes}
    \cup {[kind |-> "miss", st |-> st] : st \in StatTypes}

\* the column list main passes for a stat type
TargetCols(st) ==
    IF st = "batting" THEN BATTING_COLS
    ELSE IF st = "pitching" THEN PITCHING_COLS
    ELSE DEFENSE_COLS

InitMap == /\ text \in MapInputs /\ result = EmptyMap /\ phase = "input"
           /\ IdleSched /\ IdleStats

MapRow == /\ phase = "input" /\ text.kind = "row"
          /\ result' = map_row(text.raw, ColMap(text.st))
          /\ phase' = "done"
          /\ UNCHANGED <<text, schedVars, statVars>>

ZeroStats == /\ phase = "input" /\ text.kind = "miss"
             /\ result' = zero_stats(ColMap(text.st))
             /\ phase' = "done"
             /\ UNCHANGED <<text, schedVars, statVars>>

NextMap == MapRow \/ ZeroStats
SpecMap == InitMap /\ [][NextMap]_vars

\* C13: the mapping map_row or zero_stats gives for a category has a key for
\* every column of the category's column list, so the cell the writers build
\* for a column is the value the mapping holds under it
C13_SchemaComplete ==
    phase = "done" =>
        \A k \in 1..Len(TargetCols(text.st)) :
            /\ TargetCols(text.st)[k] \in DOMAIN result
            /\ StatCells(result, TargetCols(text.st))[k]
                  = result[TargetCols(text.st)[k]]

-----------------------------------------------------------------------------
(* The rows of the schools of a run after the writer                        *)

\* the rows of a table that carry the school
RowsFor(rows, school) == SelectSeq(rows, LAMBDA r : r.school = school)

\* the records an entry adds to all_games in the current run
Contributed(entry) ==
    IF Failing(entry) THEN <<>>
    ELSE Contribution(entry,
                      Parsed(entry.school, fetch_print_page(pages[entry.school])),
                      today, Now(run))

\* C14: after a run that reached the writer, the rows of the tab for each
\* school of the run (also one without URL, one whose fetch failed and one
\* whose games the --today filter removed) are the records that school
\* contributed in this run, and all_games follows the kept rows in extraction
\* order; a school of the run that contributed nothing has no row left
C14_InScopeReplaced ==
    (spc = "done" /\ all_games /= <<>>) =>
        /\ \A k \in 1..Len(schools) :
              RowsFor(sheet, schools[k].school) = Contributed(schools[k])
        /\ sheet = OutOfScope(pre_sheet) \o all_games

\* a run reached the writer while a school of the run that had rows in the
\* tab contributed nothing: its rows are gone
C14_Witness ==
    /\ spc = "done" /\ all_games /= <<>>
    /\ \E k \in 1..Len(schools) :
          /\ Contributed(schools[k]) = <<>>
          /\ RowsFor(pre_sheet, schools[k].school) /= <<>>
          /\ RowsFor(sheet, schools[k].school) = <<>>
    /\ \E k \in 1..Len(schools) :
          /\ ~Failing(schools[k])
          /\ Contributed(schools[k]) = <<>>

-----------------------------------------------------------------------------
(* A player whose statistics cannot be located                              *)

\* scrape cannot locate the statistics: no jersey number, no table of the
\* stat type on the page, or no row of that table whose first cell is the
\* jersey
Miss(player, st, found) ==
    \/ Strip(player.Jersey) = ""
    \/ /\ found /= "timeout"
       /\ \/ find_table(StatPages[found], st) = 0
          \/ JerseyRow(StatPages[found][find_table(StatPages[found], st)],
                       Strip(player.Jersey)) = 0

\* the mapping holds "0" under every destination of the category's map
AllZeros(m, col_map) ==
    \A k \in 1..Len(col_map) : \A j \in 1..Len(col_map[k][2]) :
        /\ col_map[k][2][j] \in DOMAIN m
        /\ m[col_map[k][2][j]] = "0"

\* the current category of the current player is a miss
MissNow == Miss(Player, Category.st, Found)

=============================================================================
